---- MODULE Spec2Model ----
(***************************************************************************)
(* A model of util.py, the helper layer of the OSF smokescreen UI tests.   *)
(*                                                                         *)
(* The helpers are single-threaded and synchronous, so every helper is one *)
(* action.  A helper is written as an operator over a session record s     *)
(* that is threaded through its statements in program order:               *)
(*    s.url, s.wait          the browser session (current page, implicit   *)
(*                           wait in tenths of a second)                   *)
(*    s.text                 the length of the text the wiki input holds   *)
(*    s.log                  the driver calls issued so far by this helper *)
(*    s.exc                  the exception in flight ("none" when none);   *)
(*                           once set, every later statement is skipped    *)
(*    s.ret                  the value of the last expression              *)
(* The web application is external: what a lookup finds is an input e of   *)
(* the helper, e.dom[loc] being the number of elements matching loc (2     *)
(* standing for two or more), e.broken the locators whose lookup fails     *)
(* with another driver error and e.text the length of the text the wiki    *)
(* input holds when the helper starts.                                     *)
(***************************************************************************)
EXTENDS Integers, Sequences, FiniteSets, TLC

VARIABLES
    driver,          \* the browser session: launched, url, wait, text
    pre,             \* the session as it was when the last helper was called
    call,            \* the last helper called, with its arguments
    env,             \* what the application showed to the last helper
    log,             \* the driver calls the last helper issued, in order
    exc,             \* the exception the last helper raised, "none" when none
    ret,             \* the value the last helper returned
    versionText,     \* the pieces of the text the version element shows
    clock,           \* the time, as a UUID timestamp
    ticks,           \* how often the clock has advanced
    last_timestamp,  \* uuid._last_timestamp, <<>> for None
    users,           \* the fixture records generated so far
    posted,          \* the HTTP requests the last helper sent
    returned         \* the user record the last helper returned

vars == <<driver, pre, call, env, log, exc, ret, versionText,
          clock, ticks, last_timestamp, users, posted, returned>>

fixtureVars == <<clock, ticks, last_timestamp, users, posted, returned>>

----------------------------------------------------------------------------
(* Bounds *)

MaxFaults == 1      \* most locators of one call that do not match exactly once
MaxFormFaults == 2  \* the same, for the field mappings given to fill_form
MaxFields == 3      \* most entries of a field mapping given to fill_form
MaxLen == 3         \* longest text of the wiki input element
MaxPieces == 3      \* most pieces the rendered version text is made of
MaxTicks == 2       \* most clock advances between fixture generations
MaxUsers == 2       \* fixture records kept for comparison

----------------------------------------------------------------------------
(* Values of the config module and of the source *)

selenium_wait_time == 50        \* config.selenium_wait_time, tenths of a second
ShortWait == 1                  \* 0.1 s
DefaultLength == 12             \* gen_user_data's default _length

osf_home == "osf_home"
AccountUrl == "osf_home/account"
DashboardUrl == "osf_home/dashboard"
RegisterUrl == "osf_home/register/"
project_title == "config.project_title"
node_title == "config.node_title"
BACK_SPACE == "Keys.BACK_SPACE"

NoElm == <<"", "">>
DriverRoot == <<"driver", "">>

LinkText(t) == <<"link text", t>>
Css(sel) == <<"css selector", sel>>
XPath(x) == <<"xpath", x>>
ById(i) == <<"id", i>>

find_btn == XPath(".//button")
LogoutLink == XPath("//a[@href=\"/logout\"]")
SigninForm == XPath("//form[@name=\"signin\"]")
NewProjectForm == XPath("//form[@name=\"newProject\"]")
NewNodeForm == XPath("//form[contains(@action, \"newnode\")]")
ForgotForm == XPath("//form[@name=\"forgotpassword\"]")
WmdInput == ById("wmd-input")
WmdPreview == ById("wmd-preview")
WmdSubmit == XPath("//div[@class=\"wmd-panel\"]//input[@type=\"submit\"]")
VersionElm == XPath("//dt[text()=\"Version\"]/following-sibling::*")
WikiPar == XPath("//div[@id=\"addContributors\"]/following-sibling::div//p")
TitleInput == Css("input[name=\"title\"]")
NodeTitleEditable == ById("node-title-editable")
PopoverInput == XPath("//div[@class=\"popover-content\"]//input[@class=\"span2\"]")
PopoverButton == XPath("//div[@class=\"popover-content\"]//button[@class=\"btn btn-primary\"]")

----------------------------------------------------------------------------
(* The driver session: the calls the helpers make on it *)

None == [kind |-> "None", elm |-> NoElm, s |-> "", n |-> 0]
ElmVal(loc) == [kind |-> "element", elm |-> loc, s |-> "", n |-> 0]
StrVal(str) == [kind |-> "str", elm |-> NoElm, s |-> str, n |-> 0]
IntVal(i) == [kind |-> "int", elm |-> NoElm, s |-> "", n |-> i]
ListVal(loc, i) == [kind |-> "list", elm |-> loc, s |-> "", n |-> i]

Ev(op, on, loc, str, n) == [op |-> op, on |-> on, loc |-> loc, s |-> str, n |-> n]

Session(d, e) == [url |-> d.url, wait |-> d.wait, text |-> e.text,
                  log |-> <<>>, exc |-> "none", ret |-> None]

\* The page a click on a link leads to; any other element leaves the address alone.
Href(elm, url) ==
    IF elm[1] # "link text" THEN IF elm = LogoutLink THEN "osf_home/logout" ELSE url
    ELSE IF elm[2] = "My Public Profile" THEN "osf_home/profile"
    ELSE IF elm[2] = "Files" THEN "project/files"
    ELSE IF elm[2] = "Settings" THEN "project/settings"
    ELSE IF elm[2] = "Registrations" THEN "project/registrations"
    ELSE IF elm[2] = "New Project" THEN "osf_home/project/new"
    ELSE IF elm[2] = "Edit" THEN "project/wiki/edit"
    ELSE IF elm[2] = "Add Component" THEN url
    ELSE "project"

\* driver.get(url)
get(s, url) ==
    IF s.exc # "none" THEN s
    ELSE [s EXCEPT !.url = url, !.log = Append(@, Ev("get", DriverRoot, NoElm, url, 0)),
                   !.ret = None]

\* driver.implicitly_wait(t)
implicitly_wait(s, t) ==
    IF s.exc # "none" THEN s
    ELSE [s EXCEPT !.wait = t,
                   !.log = Append(@, Ev("implicitly_wait", DriverRoot, NoElm, "", t)),
                   !.ret = None]

\* A lookup that insists on exactly one match.
find_element_unique(s, e, root, loc) ==
    IF s.exc # "none" THEN s
    ELSE IF loc \in e.broken
    THEN [s EXCEPT !.log = Append(@, Ev("find", root, loc, "error", 0)),
                   !.exc = "WebDriverException"]
    ELSE IF e.dom[loc] # 1
    THEN [s EXCEPT !.log = Append(@, Ev("find", root, loc, "none", e.dom[loc])),
                   !.exc = "NoSuchElementException"]
    ELSE [s EXCEPT !.log = Append(@, Ev("find", root, loc, "found", e.dom[loc])),
                   !.ret = ElmVal(loc)]

\* root.find_element_by_*(loc): the first match, NoSuchElementException when
\* nothing matches within the implicit wait, any other driver failure as it is.
find_element(s, e, root, loc) ==
    IF s.exc # "none" THEN s
    ELSE IF loc \in e.broken
    THEN [s EXCEPT !.log = Append(@, Ev("find", root, loc, "error", 0)),
                   !.exc = "WebDriverException"]
    ELSE IF e.dom[loc] = 0
    THEN [s EXCEPT !.log = Append(@, Ev("find", root, loc, "none", 0)),
                   !.exc = "NoSuchElementException"]
    ELSE [s EXCEPT !.log = Append(@, Ev("find", root, loc, "found", e.dom[loc])),
                   !.ret = ElmVal(loc)]

\* root.find_elements_by_xpath(loc): every match, an empty list when none.
find_elements(s, e, root, loc) ==
    IF s.exc # "none" THEN s
    ELSE IF loc \in e.broken
    THEN [s EXCEPT !.log = Append(@, Ev("find_elements", root, loc, "error", 0)),
                   !.exc = "WebDriverException"]
    ELSE [s EXCEPT !.log = Append(@, Ev("find_elements", root, loc, "found", e.dom[loc])),
                   !.ret = ListVal(loc, e.dom[loc])]

\* <element>.send_keys(keys) on the element just found, n the number of keys:
\* a backspace removes the last character of the element's text, any other
\* key adds one.
send_keys(s, keys, n) ==
    IF s.exc # "none" THEN s
    ELSE [s EXCEPT !.log = Append(@, Ev("send_keys", s.ret.elm, NoElm, keys, n)),
                   !.text = IF s.ret.elm # WmdInput THEN @
                            ELSE IF keys = BACK_SPACE THEN (IF @ > n THEN @ - n ELSE 0)
                            ELSE IF @ + n < MaxLen THEN @ + n ELSE MaxLen]

\* <element>.click() on the element just found
click(s) ==
    IF s.exc # "none" THEN s
    ELSE [s EXCEPT !.log = Append(@, Ev("click", s.ret.elm, NoElm, "", 0)),
                   !.url = Href(s.ret.elm, @),
                   !.ret = None]

\* <element>.clear() on the element just found
clear(s) ==
    IF s.exc # "none" THEN s
    ELSE [s EXCEPT !.log = Append(@, Ev("clear", s.ret.elm, NoElm, "", 0))]

\* <element>.text / driver.current_url: reads, no driver command that acts
Returning(s, v) == IF s.exc # "none" THEN s ELSE [s EXCEPT !.ret = v]

\* try: ... except NoSuchElementException: <fallback value>
ExceptNoSuchElement(s, v) ==
    IF s.exc = "NoSuchElementException" THEN [s EXCEPT !.exc = "none", !.ret = v] ELSE s

\* driver.execute_script(script), driver.refresh()
command(s, op) ==
    IF s.exc # "none" THEN s
    ELSE [s EXCEPT !.log = Append(@, Ev(op, DriverRoot, NoElm, "", 0)), !.ret = None]

\* WebDriverWait(driver, 3).until(ec.visibility_of_element_located(loc)):
\* TimeoutException when the element does not show within the wait.
wait_visible(s, e, loc) ==
    IF s.exc # "none" THEN s
    ELSE IF loc \in e.broken
    THEN [s EXCEPT !.log = Append(@, Ev("until", DriverRoot, loc, "error", 0)),
                   !.exc = "WebDriverException"]
    ELSE IF e.dom[loc] = 0
    THEN [s EXCEPT !.log = Append(@, Ev("until", DriverRoot, loc, "timeout", 0)),
                   !.exc = "TimeoutException"]
    ELSE [s EXCEPT !.log = Append(@, Ev("until", DriverRoot, loc, "visible", e.dom[loc])),
                   !.ret = ElmVal(loc)]

----------------------------------------------------------------------------
(* The helpers of util.py, statement by statement *)

\* driver_name = driver_name or config.driver_name; "" stands for None
driver_class(driver_name) == IF driver_name = "" THEN "config.driver_name" ELSE driver_name

\* launch_driver: whichever class builds it ("Remote" with a command executor,
\* "PhantomJS" with its binary, any other without arguments), a new session
\* with the wait set by implicitly_wait(wait_time)
launch_driver(wait_time) ==
    [launched |-> TRUE, url |-> "about:blank", wait |-> wait_time]

RECURSIVE backspaces(_, _, _)
backspaces(s, elm, k) ==
    IF k = 0 THEN s
    ELSE backspaces(send_keys([s EXCEPT !.ret = ElmVal(elm)], BACK_SPACE, 1), elm, k - 1)

\* A loop that reads the length of the text again before every keystroke.
RECURSIVE clear_text_reread_from(_, _, _)
clear_text_reread_from(s, elm, i) ==
    IF s.exc # "none" \/ i >= s.text THEN s
    ELSE clear_text_reread_from(
             send_keys([s EXCEPT !.ret = ElmVal(elm)], BACK_SPACE, 1), elm, i + 1)

clear_text_reread(s, elm) == clear_text_reread_from(s, elm, 0)

\* clear_text(elm): for _ in range(len(elm.text)): elm.send_keys(Keys.BACK_SPACE)
clear_text(s, elm) ==
    IF s.exc # "none" THEN s ELSE [backspaces(s, elm, s.text) EXCEPT !.ret = None]

\* get_alert_boxes(driver, alert_text)
get_alert_boxes(s, e, alert) == find_elements(s, e, DriverRoot, XPath(alert))

RECURSIVE fill_fields(_, _, _, _, _)
fill_fields(s, e, root, fields, i) ==
    IF i > Len(fields) THEN s
    ELSE fill_fields(
             send_keys(find_element(s, e, root, Css(fields[i][1])), fields[i][2], 1),
             e, root, fields, i + 1)

\* A form filler that submits before it types.
fill_form_click_first(s, e, root, fields, button_finder) ==
    fill_fields(click(find_element(s, e, root, button_finder)), e, root, fields, 1)

\* fill_form(root, fields, button_finder): fields holds the (locator, value)
\* pairs in the iteration order of the mapping, button_finder the locator the
\* finder looks up under root.
fill_form(s, e, root, fields, button_finder) ==
    click(find_element(fill_fields(s, e, root, fields, 1), e, root, button_finder))

\* login(driver, username, password)
login(s, e) ==
    LET s1 == get(s, AccountUrl)
        s2 == find_element(s1, e, DriverRoot, SigninForm)
    IN  fill_form(s2, e, SigninForm,
                  <<(<<"#username", "username">>), (<<"#password", "password">>)>>,
                  find_btn)

\* goto_dashboard(driver)
goto_dashboard(s) == get(s, DashboardUrl)

\* goto_profile(driver)
goto_profile(s, e) ==
    click(find_element(goto_dashboard(s), e, DriverRoot, LinkText("My Public Profile")))

\* goto_project(driver, project_title): returns driver.current_url
goto_project(s, e, title) ==
    LET s1 == click(find_element(goto_dashboard(s), e, DriverRoot, LinkText(title)))
    IN  Returning(s1, StrVal(s1.url))

\* A files helper that loads the dashboard itself and does not go through the project page.
goto_files_direct(s, e, title) ==
    click(find_element(goto_dashboard(s), e, DriverRoot, LinkText("Files")))

\* goto_files(driver, project_title)
goto_files(s, e, title) ==
    click(find_element(goto_project(s, e, title), e, DriverRoot, LinkText("Files")))

\* goto_settings(driver, project_name)
goto_settings(s, e, title) ==
    click(find_element(goto_project(s, e, title), e, DriverRoot, LinkText("Settings")))

\* goto_registrations(driver, project_name)
goto_registrations(s, e, title) ==
    click(find_element(goto_project(s, e, title), e, DriverRoot, LinkText("Registrations")))

\* A logout without the try / except around the lookup.
logout_no_except(s, e) ==
    click(find_element(get(s, osf_home), e, DriverRoot, LogoutLink))

\* logout(driver)
logout(s, e) ==
    ExceptNoSuchElement(
        click(find_element(get(s, osf_home), e, DriverRoot, LogoutLink)), None)

\* create_project(driver, project_title, project_description)
create_project(s, e) ==
    LET s1 == click(find_element(goto_dashboard(s), e, DriverRoot, LinkText("New Project")))
        s2 == find_element(s1, e, DriverRoot, NewProjectForm)
        s3 == fill_form(s2, e, NewProjectForm,
                        <<(<<"#title", "project_title">>),
                          (<<"#description", "project_description">>)>>,
                        find_btn)
    IN  Returning(s3, StrVal(s3.url))

\* create_node(driver, project_title, node_title, project_url)
create_node(s, e, title, project_url) ==
    LET s1 == IF project_url # "" THEN get(s, project_url) ELSE goto_project(s, e, title)
        s2 == click(find_element(s1, e, DriverRoot, LinkText("Add Component")))
        s3 == find_element(s2, e, DriverRoot, NewNodeForm)
        s4 == wait_visible(s3, e, TitleInput)
    IN  fill_form(s4, e, NewNodeForm,
                  <<(<<"input[name=\"title\"]", "node_title">>),
                    (<<"#category", "Project">>)>>,
                  find_btn)

\* select_partial(driver, id, start, stop)
select_partial(s) == command(s, "execute_script")

\* edit_wiki(driver)
edit_wiki(s, e) == click(find_element(s, e, DriverRoot, LinkText("Edit")))

\* get_wiki_input(driver)
get_wiki_input(s, e) == find_element(s, e, DriverRoot, WmdInput)

\* add_wiki_text(driver, text), n the length of text
add_wiki_text(s, e, n) ==
    LET s1 == send_keys(get_wiki_input(s, e), "text", n)
    IN  Returning(s1, None)

\* clear_wiki_text(driver)
clear_wiki_text(s, e) ==
    LET s1 == get_wiki_input(s, e) IN clear_text(s1, WmdInput)

\* submit_wiki_text(driver)
submit_wiki_text(s, e) == click(find_element(s, e, DriverRoot, WmdSubmit))

\* A preview reader that answers '' when the preview is missing.
get_wiki_preview_or_empty(s, e) ==
    ExceptNoSuchElement(
        Returning(find_element(s, e, DriverRoot, WmdPreview), StrVal("preview")),
        StrVal(""))

\* get_wiki_preview(driver)
get_wiki_preview(s, e) ==
    Returning(find_element(s, e, DriverRoot, WmdPreview), StrVal("preview"))

\* get_wiki_par(driver)
get_wiki_par(s, e) ==
    LET s1 == implicitly_wait(s, ShortWait)
        s2 == ExceptNoSuchElement(find_element(s1, e, DriverRoot, WikiPar), None)
    IN  [implicitly_wait(s2, selenium_wait_time) EXCEPT !.ret = s2.ret]

\* get_wiki_text(driver)
get_wiki_text(s, e) ==
    LET s1 == get_wiki_par(s, e)
    IN  IF s1.exc # "none" THEN s1
        ELSE IF s1.ret # None THEN Returning(s1, StrVal("wiki text"))
        ELSE Returning(s1, StrVal(""))

\* forget_password(driver, email)
forget_password(s, e) ==
    LET s1 == get(s, AccountUrl)
        s2 == find_element(s1, e, DriverRoot, ForgotForm)
    IN  fill_form(s2, e, ForgotForm, <<(<<"#forgot_password-email", "email">>)>>, find_btn)

\* project_rename(driver, text)
project_rename(s, e) ==
    LET s1 == click(find_element(s, e, DriverRoot, NodeTitleEditable))
        s2 == find_element(s1, e, DriverRoot, PopoverInput)
        s3 == send_keys(clear(s2), "text", 1)
        s4 == click(find_element(s3, e, DriverRoot, PopoverButton))
    IN  command(s4, "refresh")

----------------------------------------------------------------------------
(* get_wiki_version: the rendered text as a sequence of characters *)

Marker == <<"(", "c", "u", "r", "r", "e", "n", "t", ")">>

\* re.I: a letter of the text is compared by its lower case
Lower(c) ==
    CASE c = "C" -> "c" [] c = "U" -> "u" [] c = "R" -> "r"
      [] c = "E" -> "e" [] c = "N" -> "n" [] c = "T" -> "t" [] OTHER -> c

\* \s
IsSpace(c) == c \in {" ", "\t", "\n"}

Digits == {"0", "1", "2", "3", "4", "5", "6", "7", "8", "9"}

DigitVal(c) ==
    CASE c = "0" -> 0 [] c = "1" -> 1 [] c = "2" -> 2 [] c = "3" -> 3 [] c = "4" -> 4
      [] c = "5" -> 5 [] c = "6" -> 6 [] c = "7" -> 7 [] c = "8" -> 8 [] c = "9" -> 9

\* \s* from position i: the position after the run of blanks
RECURSIVE SkipSpaces(_, _)
SkipSpaces(t, i) == IF i <= Len(t) /\ IsSpace(t[i]) THEN SkipSpaces(t, i + 1) ELSE i

\* The literal (current) at position j, letters compared as `fold` folds them
LiteralAt(t, j, fold) ==
    /\ j + Len(Marker) - 1 <= Len(t)
    /\ \A k \in 1..Len(Marker) :
          (IF fold THEN Lower(t[j + k - 1]) ELSE t[j + k - 1]) = Marker[k]

\* A match of \s*\(current\)\s* starting at i: the position after it, 0 when none
MatchEnd(t, i, fold) ==
    LET j == SkipSpaces(t, i)
    IN  IF LiteralAt(t, j, fold) THEN SkipSpaces(t, j + Len(Marker)) ELSE 0

RECURSIVE re_sub_from(_, _, _)
re_sub_from(t, i, fold) ==
    IF i > Len(t) THEN <<>>
    ELSE LET m == MatchEnd(t, i, fold)
         IN  IF m > 0 THEN re_sub_from(t, m, fold)
             ELSE <<t[i]>> \o re_sub_from(t, i + 1, fold)

\* The substitution without flags=re.I
re_sub_case_sensitive(t) == re_sub_from(t, 1, FALSE)

\* re.sub('\s*\(current\)\s*', '', version, flags=re.I)
re_sub(t) == re_sub_from(t, 1, TRUE)

RECURSIVE LastNonSpace(_, _)
LastNonSpace(t, i) == IF i >= 1 /\ IsSpace(t[i]) THEN LastNonSpace(t, i - 1) ELSE i

RECURSIVE digits_value(_, _, _)
digits_value(t, i, acc) ==
    IF i > Len(t) THEN acc ELSE digits_value(t, i + 1, acc * 10 + DigitVal(t[i]))

\* int(version): blanks around the literal are dropped, one sign is read, the
\* rest must be decimal digits; ok is FALSE where int raises ValueError.
py_int(t) ==
    LET a == SkipSpaces(t, 1)
        b == LastNonSpace(t, Len(t))
        body == IF a > b THEN <<>> ELSE SubSeq(t, a, b)
        signed == body # <<>> /\ body[1] \in {"+", "-"}
        num == IF signed THEN Tail(body) ELSE body
    IN  IF num # <<>> /\ \A k \in 1..Len(num) : num[k] \in Digits
        THEN [ok |-> TRUE,
              val |-> IF signed /\ body[1] = "-" THEN 0 - digits_value(num, 1, 0)
                      ELSE digits_value(num, 1, 0)]
        ELSE [ok |-> FALSE, val |-> 0]

\* get_wiki_version(driver), text the .text of the version element
get_wiki_version(s, e, text) ==
    LET s1 == find_element(s, e, DriverRoot, VersionElm)
        version == re_sub(text)
        parsed == py_int(version)
    IN  Returning(s1, IntVal(IF parsed.ok THEN parsed.val ELSE 0))

RECURSIVE Flatten(_)
Flatten(pieces) == IF pieces = <<>> THEN <<>> ELSE Head(pieces) \o Flatten(Tail(pieces))

\* What the version element may show, as pieces of text
Pieces ==
    { <<"3">>, <<"1">>, <<"0">>, <<" ">>, <<"-">>, <<"+">>, <<"x">>, <<"(">>,
      Marker, <<"(", "C", "u", "r", "r", "e", "n", "t", ")">> }

Texts == UNION { [1..n -> Pieces] : n \in 0..MaxPieces }

----------------------------------------------------------------------------
(* gen_user_data and create_user *)

HexChar == <<"0", "1", "2", "3", "4", "5", "6", "7", "8", "9", "a", "b", "c", "d", "e", "f">>

\* A timestamp is its 15 hexadecimal digits (60 bits, 100 ns units), most
\* significant first.
TimestampDigits == 15
Clock0 == <<1, 15, 1, 10, 2, 11, 3, 12, 4, 13, 5, 14, 6, 15, 15>>

\* t + 16^(TimestampDigits - p), wrapping at 2^60
RECURSIVE AddAt(_, _)
AddAt(t, p) ==
    IF p = 0 THEN t
    ELSE IF t[p] < 15 THEN [t EXCEPT ![p] = @ + 1]
    ELSE AddAt([t EXCEPT ![p] = 0], p - 1)

RECURSIVE Less(_, _, _)
Less(a, b, i) ==
    IF i > Len(a) THEN FALSE
    ELSE IF a[i] # b[i] THEN a[i] < b[i]
    ELSE Less(a, b, i + 1)

Hex(ds) == [i \in 1..Len(ds) |-> HexChar[ds[i] + 1]]

\* uuid.uuid1(): the timestamp actually used never repeats within the process
uuid1_timestamp(now, last) ==
    IF last # <<>> /\ ~Less(last, now, 1) THEN AddAt(last, TimestampDigits) ELSE now

\* unicode(uuid.uuid1()): time_low-time_mid-time_hi_and_version-clock_seq-node
uuid_str(ts, clock_seq, node) ==
    Hex(SubSeq(ts, 8, 15)) \o <<"-">> \o Hex(SubSeq(ts, 4, 7)) \o <<"-">>
      \o <<"1">> \o Hex(SubSeq(ts, 1, 3)) \o <<"-">> \o clock_seq \o <<"-">> \o node

\* text[:stop]
slice_to(text, stop) ==
    IF stop >= 0 THEN SubSeq(text, 1, IF stop < Len(text) THEN stop ELSE Len(text))
    ELSE SubSeq(text, 1, IF Len(text) + stop > 0 THEN Len(text) + stop ELSE 0)

\* gen_user_data(_length) on the UUID string u
gen_user_data(u, length) ==
    LET uid == slice_to(u, length - 1)
        unique == uid \o <<"\\xe4">>
        username == uid \o <<"@", "o", "s", "f", "t", "e", "s", "t", ".", "o", "r", "g">>
    IN  [username |-> username, username2 |-> username,
         password |-> unique, password2 |-> unique, fullname |-> unique]

\* The form create_user would post if it sent the record's own confirmation fields.
register_form_own_confirmations(user_data) ==
    [fullname |-> user_data.fullname,
     username |-> user_data.username, username2 |-> user_data.username2,
     password |-> user_data.password, password2 |-> user_data.password2]

\* The data of the requests.post of create_user: the register-* form fields
register_form(user_data) ==
    [fullname |-> user_data.fullname,
     username |-> user_data.username, username2 |-> user_data.username,
     password |-> user_data.password, password2 |-> user_data.password]

----------------------------------------------------------------------------
(* The state machine *)

NoDriver == [launched |-> FALSE, url |-> "", wait |-> 0]
NoEnv == [dom |-> <<>>, broken |-> {}, text |-> 0]
NoRecord == [username |-> <<>>, username2 |-> <<>>, password |-> <<>>,
             password2 |-> <<>>, fullname |-> <<>>]
NoUser == [given |-> FALSE, data |-> NoRecord]

Call(name) == [name |-> name, title |-> "", fields |-> <<>>, button |-> NoElm,
               n |-> 0, user |-> NoUser]

\* How many elements a locator matches: none, one, or several
Matches == {0, 1, 2}

\* What the application may show for the locators L of a call: at most
\* MaxFaults of them match other than once; or all match once and the lookup
\* of one of them fails in the driver.
EnvsUpTo(L, faults) ==
    { [dom |-> d, broken |-> {}, text |-> 0] :
        d \in { f \in [L -> Matches] :
                  Cardinality({l \in L : f[l] # 1}) <= faults } }
    \cup { [dom |-> [l \in L |-> 1], broken |-> {b}, text |-> 0] : b \in L }

Envs(L) == EnvsUpTo(L, MaxFaults)

\* The same, the wiki input holding a text of any length up to MaxLen
TextEnvs(L) == { [e EXCEPT !.text = n] : e \in Envs(L), n \in 0..MaxLen }

DriverNames == {"", "Remote", "PhantomJS", "Firefox"}
WaitTimes == {selenium_wait_time, selenium_wait_time * 2}
Titles == {project_title, "Another Project"}
ProjectUrls == {"", "project"}

AllSelectors == <<"#username", "#password", "#title", "#description", "#category">>
Selectors == {AllSelectors[i] : i \in 1..MaxFields}
Mappings ==
    { m \in UNION { [1..n -> Selectors \X {"value"}] : n \in 0..MaxFields } :
        \A i, j \in DOMAIN m : i # j => m[i][1] # m[j][1] }
FieldLocs(fields) == {Css(fields[i][1]) : i \in DOMAIN fields}
Buttons == {find_btn, Css("input[type=\"submit\"]")}
FormRoot == XPath("//form")

ClockSeqs == {<<"8", "a", "3", "f">>, <<"b", "0", "1", "2">>}
Node == <<"0", "2", "4", "2", "a", "c", "1", "1", "0", "0", "0", "2">>
Lengths == {0, 1, DefaultLength, 37}
TickDigits == {15, 7}

GivenUsers ==
    { [username |-> u, username2 |-> u2, password |-> <<"p", "w">>,
       password2 |-> <<"p", "w">>, fullname |-> <<"T">>] :
        u \in {<<"a", "@", "b">>}, u2 \in {<<"a", "@", "b">>, <<"a", "@", "c">>} }
Responses == {200, 500}

InitBase ==
    /\ pre = NoDriver
    /\ call = Call("")
    /\ env = NoEnv
    /\ log = <<>>
    /\ exc = "none"
    /\ ret = None
    /\ clock = Clock0
    /\ ticks = 0
    /\ last_timestamp = <<>>
    /\ users = <<>>
    /\ posted = <<>>
    /\ returned = NoRecord

Init ==
    /\ InitBase
    /\ driver = NoDriver
    /\ versionText = <<(<<"3">>), (<<" ">>), Marker>>

\* The effect of a helper that ran on the session: s is the session it left
Ran(c, e, s) ==
    /\ driver.launched
    /\ driver' = [driver EXCEPT !.url = s.url, !.wait = s.wait]
    /\ pre' = driver
    /\ call' = c
    /\ env' = e
    /\ log' = s.log
    /\ exc' = s.exc
    /\ ret' = s.ret
    /\ UNCHANGED <<versionText, fixtureVars>>

S(e) == Session(driver, e)

LaunchDriver ==
    \E name \in DriverNames, w \in WaitTimes :
        /\ driver' = launch_driver(w)
        /\ pre' = driver
        /\ call' = [Call("launch_driver") EXCEPT !.title = driver_class(name), !.n = w]
        /\ env' = NoEnv
        /\ log' = <<Ev("implicitly_wait", DriverRoot, NoElm, "", w)>>
        /\ exc' = "none"
        /\ ret' = None
        /\ UNCHANGED <<versionText, fixtureVars>>

ClearText ==
    \E e \in TextEnvs({}) : Ran(Call("clear_text"), e, clear_text(S(e), WmdInput))

GetAlertBoxes ==
    \E e \in Envs({XPath("alert")}) :
        Ran(Call("get_alert_boxes"), e, get_alert_boxes(S(e), e, "alert"))

Login ==
    \E e \in Envs({SigninForm, Css("#username"), Css("#password"), find_btn}) :
        Ran(Call("login"), e, login(S(e), e))

GotoDashboard == Ran(Call("goto_dashboard"), NoEnv, goto_dashboard(S(NoEnv)))

GotoProfile ==
    \E e \in Envs({LinkText("My Public Profile")}) :
        Ran(Call("goto_profile"), e, goto_profile(S(e), e))

GotoProject ==
    \E t \in Titles : \E e \in Envs({LinkText(t)}) :
        Ran([Call("goto_project") EXCEPT !.title = t], e, goto_project(S(e), e, t))

GotoFiles ==
    \E t \in Titles : \E e \in Envs({LinkText(t), LinkText("Files")}) :
        Ran([Call("goto_files") EXCEPT !.title = t], e, goto_files(S(e), e, t))

GotoSettings ==
    \E t \in Titles : \E e \in Envs({LinkText(t), LinkText("Settings")}) :
        Ran([Call("goto_settings") EXCEPT !.title = t], e, goto_settings(S(e), e, t))

GotoRegistrations ==
    \E t \in Titles : \E e \in Envs({LinkText(t), LinkText("Registrations")}) :
        Ran([Call("goto_registrations") EXCEPT !.title = t], e,
            goto_registrations(S(e), e, t))

Logout ==
    \E e \in Envs({LogoutLink}) : Ran(Call("logout"), e, logout(S(e), e))

CreateProject ==
    \E e \in Envs({LinkText("New Project"), NewProjectForm, Css("#title"),
                   Css("#description"), find_btn}) :
        Ran(Call("create_project"), e, create_project(S(e), e))

CreateNode ==
    \E u \in ProjectUrls :
        \E e \in Envs((IF u = "" THEN {LinkText(project_title)} ELSE {})
                      \cup {LinkText("Add Component"), NewNodeForm, TitleInput,
                            Css("#category"), find_btn}) :
            Ran([Call("create_node") EXCEPT !.title = project_title], e,
                create_node(S(e), e, project_title, u))

SelectPartial == Ran(Call("select_partial"), NoEnv, select_partial(S(NoEnv)))

EditWiki ==
    \E e \in Envs({LinkText("Edit")}) : Ran(Call("edit_wiki"), e, edit_wiki(S(e), e))

GetWikiInput ==
    \E e \in Envs({WmdInput}) : Ran(Call("get_wiki_input"), e, get_wiki_input(S(e), e))

AddWikiText ==
    \E n \in 1..MaxLen : \E e \in Envs({WmdInput}) :
        Ran([Call("add_wiki_text") EXCEPT !.n = n], e, add_wiki_text(S(e), e, n))

ClearWikiText ==
    \E e \in TextEnvs({WmdInput}) :
        Ran(Call("clear_wiki_text"), e, clear_wiki_text(S(e), e))

SubmitWikiText ==
    \E e \in Envs({WmdSubmit}) : Ran(Call("submit_wiki_text"), e, submit_wiki_text(S(e), e))

GetWikiVersion ==
    \E e \in Envs({VersionElm}) :
        Ran(Call("get_wiki_version"), e, get_wiki_version(S(e), e, Flatten(versionText)))

GetWikiPar ==
    \E e \in Envs({WikiPar}) : Ran(Call("get_wiki_par"), e, get_wiki_par(S(e), e))

GetWikiText ==
    \E e \in Envs({WikiPar}) : Ran(Call("get_wiki_text"), e, get_wiki_text(S(e), e))

GetWikiPreview ==
    \E e \in Envs({WmdPreview}) : Ran(Call("get_wiki_preview"), e, get_wiki_preview(S(e), e))

ForgetPassword ==
    \E e \in Envs({ForgotForm, Css("#forgot_password-email"), find_btn}) :
        Ran(Call("forget_password"), e, forget_password(S(e), e))

ProjectRename ==
    \E e \in Envs({NodeTitleEditable, PopoverInput, PopoverButton}) :
        Ran(Call("project_rename"), e, project_rename(S(e), e))

Next ==
    \/ LaunchDriver
    \/ ClearText
    \/ GetAlertBoxes
    \/ Login
    \/ GotoDashboard
    \/ GotoProfile
    \/ GotoProject
    \/ GotoFiles
    \/ GotoSettings
    \/ GotoRegistrations
    \/ Logout
    \/ CreateProject
    \/ CreateNode
    \/ SelectPartial
    \/ EditWiki
    \/ GetWikiInput
    \/ AddWikiText
    \/ ClearWikiText
    \/ SubmitWikiText
    \/ GetWikiVersion
    \/ GetWikiPar
    \/ GetWikiText
    \/ GetWikiPreview
    \/ ForgetPassword
    \/ ProjectRename

\* The helpers of a test session, on one driver
Spec == Init /\ [][Next]_vars

(* fill_form on its own: the test holds a root element of the loaded page,   *)
(* a field mapping and a button finder, and calls fill_form with them       *)
InitForm ==
    /\ pre = NoDriver
    /\ \E fields \in Mappings, b \in Buttons :
          /\ call = [Call("") EXCEPT !.fields = fields, !.button = b]
          /\ env \in EnvsUpTo(FieldLocs(fields) \cup {b}, MaxFormFaults)
    /\ log = <<>>
    /\ exc = "none"
    /\ ret = None
    /\ clock = Clock0
    /\ ticks = 0
    /\ last_timestamp = <<>>
    /\ users = <<>>
    /\ posted = <<>>
    /\ returned = NoRecord
    /\ driver = [launch_driver(selenium_wait_time) EXCEPT !.url = AccountUrl]
    /\ versionText = <<>>

FillForm ==
    /\ call.name = ""
    /\ Ran([call EXCEPT !.name = "fill_form"], env,
           fill_form(S(env), env, FormRoot, call.fields, call.button))

NextForm == FillForm

SpecForm == InitForm /\ [][NextForm]_vars

(* get_wiki_version on its own: every text the version element may show *)
InitVersion ==
    /\ InitBase
    /\ driver = [launch_driver(selenium_wait_time) EXCEPT !.url = "project/wiki"]
    /\ versionText \in Texts

NextVersion == GetWikiVersion

SpecVersion == InitVersion /\ [][NextVersion]_vars

(* The fixture generator and the HTTP registration: no driver is needed *)
Tick ==
    /\ ticks < MaxTicks
    /\ \E p \in TickDigits : clock' = AddAt(clock, p)
    /\ ticks' = ticks + 1
    /\ UNCHANGED <<driver, pre, call, env, log, exc, ret, versionText,
                   last_timestamp, users, posted, returned>>

GenUserData ==
    /\ Len(users) < MaxUsers
    /\ \E length \in Lengths, cs \in ClockSeqs :
        LET ts == uuid1_timestamp(clock, last_timestamp)
            rec == gen_user_data(uuid_str(ts, cs, Node), length)
        IN  /\ last_timestamp' = ts
            /\ users' = Append(users, rec)
            /\ returned' = rec
            /\ call' = [Call("gen_user_data") EXCEPT !.n = length]
    /\ pre' = driver
    /\ env' = NoEnv
    /\ log' = <<>>
    /\ exc' = "none"
    /\ ret' = None
    /\ posted' = <<>>
    /\ UNCHANGED <<driver, versionText, clock, ticks>>

CreateUser ==
    \E arg \in {NoUser} \cup {[given |-> TRUE, data |-> g] : g \in GivenUsers},
       cs \in ClockSeqs, status \in Responses :
        LET ts == uuid1_timestamp(clock, last_timestamp)
            user_data == IF arg.given THEN arg.data
                         ELSE gen_user_data(uuid_str(ts, cs, Node), DefaultLength)
        IN  /\ arg.given \/ Len(users) < MaxUsers
            /\ last_timestamp' = IF arg.given THEN last_timestamp ELSE ts
            /\ users' = IF arg.given THEN users ELSE Append(users, user_data)
            /\ posted' = <<[url |-> RegisterUrl, data |-> register_form(user_data),
                            verify |-> FALSE, status |-> status]>>
            /\ returned' = user_data
            /\ call' = [Call("create_user") EXCEPT !.user = arg]
            /\ pre' = driver
            /\ env' = NoEnv
            /\ log' = <<>>
            /\ exc' = "none"
            /\ ret' = None
            /\ UNCHANGED <<driver, versionText, clock, ticks>>

InitFixture ==
    /\ InitBase
    /\ driver \in {NoDriver, launch_driver(selenium_wait_time)}
    /\ versionText = <<>>

NextFixture == Tick \/ GenUserData \/ CreateUser

SpecFixture == InitFixture /\ [][NextFixture]_vars

----------------------------------------------------------------------------
(* Reading the log of the last helper *)

IsFind(ev, root, loc) == ev.op = "find" /\ ev.on = root /\ ev.loc = loc
IsFound(ev, root, loc) == IsFind(ev, root, loc) /\ ev.s = "found"
IsNotFound(ev, root, loc) == IsFind(ev, root, loc) /\ ev.s = "none"
IsType(ev, elm, keys) == ev.op = "send_keys" /\ ev.on = elm /\ ev.s = keys
IsClick(ev, elm) == ev.op = "click" /\ ev.on = elm
IsGet(ev, url) == ev.op = "get" /\ ev.s = url

Clicks == {i \in DOMAIN log : log[i].op = "click"}
Types == {i \in DOMAIN log : log[i].op = "send_keys"}

\* The lookup of loc went through and matched something
Resolves(loc) == loc \notin env.broken /\ env.dom[loc] >= 1

----------------------------------------------------------------------------
(* fill_form *)

FillFormRan == call.name = "fill_form"
FieldLoc(i) == Css(call.fields[i][1])
AllFieldsResolve == \A i \in DOMAIN call.fields : Resolves(FieldLoc(i))

\* The first k fields were looked up under root and typed into, in order
TypedInOrder(k) ==
    /\ Len(log) >= 2 * k
    /\ \A i \in 1..k :
          /\ IsFound(log[2 * i - 1], FormRoot, FieldLoc(i))
          /\ IsType(log[2 * i], FieldLoc(i), call.fields[i][2])

\* C1: when every field locator of a mapping with N entries resolves, fill_form
\* looks up and types into the N fields, one after the other in the mapping's
\* order, and only then calls the button finder on root and clicks the element
\* it returns, once; no click comes before or between the type operations.
C1_TypesAllThenClicksOnce ==
    FillFormRan /\ AllFieldsResolve =>
        LET N == Len(call.fields)
        IN  /\ TypedInOrder(N)
            /\ Cardinality(Types) = N
            /\ Len(log) > 2 * N
            /\ IsFind(log[2 * N + 1], FormRoot, call.button)
            /\ \A i \in Clicks : i = 2 * N + 2
            /\ Resolves(call.button) =>
                  /\ Len(log) = 2 * N + 2
                  /\ IsClick(log[2 * N + 2], call.button)
                  /\ Clicks = {2 * N + 2}
                  /\ exc = "none"

C1_Witness ==
    /\ FillFormRan
    /\ AllFieldsResolve
    /\ Len(call.fields) = MaxFields
    /\ Cardinality(Types) = MaxFields
    /\ Cardinality(Clicks) = 1

\* The first field whose locator matches nothing, 0 when every one matches
FirstMissing ==
    IF \E i \in DOMAIN call.fields : env.dom[FieldLoc(i)] = 0
    THEN CHOOSE i \in DOMAIN call.fields :
            /\ env.dom[FieldLoc(i)] = 0
            /\ \A j \in 1..(i - 1) : env.dom[FieldLoc(j)] # 0
    ELSE 0

\* The first field whose locator does not match exactly one element, 0 when none
FirstNotUnique ==
    IF \E i \in DOMAIN call.fields : env.dom[FieldLoc(i)] # 1
    THEN CHOOSE i \in DOMAIN call.fields :
            /\ env.dom[FieldLoc(i)] # 1
            /\ \A j \in 1..(i - 1) : env.dom[FieldLoc(j)] = 1
    ELSE 0

\* fill_form stopped at field i: the fields before it were typed into, the
\* lookup of field i was tried once and failed, nothing came after it, and
\* the failure is the caller's to handle.
FailedAtField(i) ==
    /\ exc = "NoSuchElementException"
    /\ TypedInOrder(i - 1)
    /\ Len(log) = 2 * i - 1
    /\ IsNotFound(log[2 * i - 1], FormRoot, FieldLoc(i))
    /\ Clicks = {}
    /\ \A k \in DOMAIN log : ~IsFind(log[k], FormRoot, call.button)

\* C2 as stated: fill_form fails at the first field whose locator does not
\* resolve to exactly one element under root, be it none or more than one.
C2_FailsUnlessExactlyOne ==
    FillFormRan /\ env.broken = {} /\ FirstNotUnique > 0 => FailedAtField(FirstNotUnique)

\* C2 as amended: fill_form fails at the first field whose locator matches no
\* element under root: no later field is typed into, the submit control is
\* neither located nor clicked, and the failure reaches the caller without a
\* retry.  A locator that matches more than one element is no failure: its
\* first match is typed into and the filling goes on.
C2_FailsAtFirstMissingField ==
    FillFormRan /\ env.broken = {} =>
        /\ FirstMissing > 0 => FailedAtField(FirstMissing)
        /\ FirstMissing = 0 =>
              /\ TypedInOrder(Len(call.fields))
              /\ Cardinality(Types) = Len(call.fields)
              /\ exc # "NoSuchElementException" \/ env.dom[call.button] = 0

C2_Witness ==
    /\ FillFormRan
    /\ env.broken = {}
    /\ FirstMissing > 1
    /\ exc = "NoSuchElementException"
    /\ Cardinality(Types) = FirstMissing - 1

----------------------------------------------------------------------------
(* logout *)

\* C4: logout loads the home page first; when the page has no logout link the
\* failed lookup is swallowed, nothing is clicked and logout returns without
\* raising; when the link is there it is clicked exactly once, after the load.
C4_LogoutToleratesMissingLink ==
    call.name = "logout" /\ env.broken = {} =>
        /\ exc = "none"
        /\ Len(log) >= 2
        /\ IsGet(log[1], osf_home)
        /\ env.dom[LogoutLink] = 0 =>
              /\ Len(log) = 2
              /\ IsNotFound(log[2], DriverRoot, LogoutLink)
              /\ Clicks = {}
        /\ env.dom[LogoutLink] >= 1 =>
              /\ Len(log) = 3
              /\ IsFound(log[2], DriverRoot, LogoutLink)
              /\ IsClick(log[3], LogoutLink)
              /\ Clicks = {3}

C4_Witness ==
    /\ call.name = "logout"
    /\ env.broken = {}
    /\ env.dom[LogoutLink] = 0
    /\ exc = "none"
    /\ Len(log) = 2

----------------------------------------------------------------------------
(* clear_text *)

Backspaces == {i \in DOMAIN log : IsType(log[i], WmdInput, BACK_SPACE) /\ log[i].n = 1}

\* C6: clear_text on an element whose text has length L when it is called
\* sends exactly L backspace keystrokes to that element, none when L = 0, and
\* then returns; the text getting shorter under the keystrokes does not
\* change the count.  clear_wiki_text does the same once it has found the
\* wiki input.
C6_ClearTextSendsLengthBackspaces ==
    /\ call.name = "clear_text" =>
          /\ exc = "none"
          /\ Len(log) = env.text
          /\ Backspaces = 1..env.text
    /\ call.name = "clear_wiki_text" /\ Resolves(WmdInput) =>
          /\ exc = "none"
          /\ Len(log) = env.text + 1
          /\ Backspaces = 2..(env.text + 1)

C6_Witness ==
    /\ call.name = "clear_text"
    /\ env.text = MaxLen
    /\ Cardinality(Backspaces) = MaxLen
    /\ exc = "none"

----------------------------------------------------------------------------
(* goto_files, goto_settings, goto_registrations *)

NavHelpers == {"goto_files", "goto_settings", "goto_registrations"}

TargetLink ==
    LinkText(CASE call.name = "goto_files" -> "Files"
               [] call.name = "goto_settings" -> "Settings"
               [] call.name = "goto_registrations" -> "Registrations"
               [] OTHER -> "")

\* What goto_project with the same title does from where the helper started
SameGotoProject == goto_project(Session(pre, env), env, call.title)

\* C7: each of the three helpers loads the dashboard first, then clicks the
\* link with the project title, then the link of its page.  The last link is
\* looked up only after goto_project has succeeded, so the helper succeeds only
\* if goto_project with the same title does; when goto_project fails its
\* failure is the helper's and the browser is left at the dashboard.
C7_TargetOnlyThroughProject ==
    call.name \in NavHelpers =>
        LET gp == SameGotoProject
        IN  /\ Len(log) >= Len(gp.log)
            /\ SubSeq(log, 1, Len(gp.log)) = gp.log
            /\ IsGet(log[1], DashboardUrl)
            /\ \A i \in DOMAIN log :
                  log[i].loc = TargetLink \/ log[i].on = TargetLink =>
                      /\ gp.exc = "none"
                      /\ i > 3
                      /\ IsFound(log[2], DriverRoot, LinkText(call.title))
                      /\ IsClick(log[3], LinkText(call.title))
            /\ gp.exc # "none" =>
                  /\ exc = gp.exc
                  /\ log = gp.log
                  /\ driver.url = DashboardUrl
            /\ exc = "none" =>
                  /\ gp.exc = "none"
                  /\ Len(log) = 5
                  /\ IsFound(log[4], DriverRoot, TargetLink)
                  /\ IsClick(log[5], TargetLink)
                  /\ driver.url = Href(TargetLink, "")

C7_Witness ==
    /\ call.name = "goto_files"
    /\ exc = "none"
    /\ Len(log) = 5
    /\ driver.url = "project/files"

----------------------------------------------------------------------------
(* Element-not-found failures *)

\* A lookup of the last helper found nothing
LookupFoundNothing == \E i \in DOMAIN log : log[i].op = "find" /\ log[i].s = "none"

\* C8 as stated: an element-not-found failure inside a helper reaches the
\* caller as it is, in every helper but logout.
C8_OnlyLogoutSwallows ==
    LookupFoundNothing /\ call.name # "logout" => exc = "NoSuchElementException"

\* C8 as amended: an element-not-found failure inside a helper reaches the
\* caller as it is, in every helper but three: logout, get_wiki_par, which
\* answers None when the wiki paragraph is not found, and get_wiki_text, which
\* calls get_wiki_par and then answers ''.  No other helper turns the failure
\* into a return value.
C8_OnlyLogoutAndWikiParSwallow ==
    LookupFoundNothing =>
        IF call.name \in {"logout", "get_wiki_par", "get_wiki_text"}
        THEN /\ exc = "none"
             /\ ret = IF call.name = "get_wiki_text" THEN StrVal("") ELSE None
        ELSE exc = "NoSuchElementException"

C8_Witness ==
    /\ call.name = "get_wiki_text"
    /\ LookupFoundNothing
    /\ exc = "none"
    /\ ret = StrVal("")

----------------------------------------------------------------------------
(* get_wiki_par and the implicit wait *)

\* C9: after get_wiki_par the implicit wait of the driver is what it was
\* before the call, whatever launch_driver set it to and however the lookup
\* ended.
C9_ImplicitWaitRestored ==
    call.name = "get_wiki_par" => driver.wait = pre.wait

----------------------------------------------------------------------------
(* get_wiki_version *)

IsMarkerPiece(piece) == Len(piece) = Len(Marker)
IsBlankPiece(piece) == piece = <<" ">>

\* The i-th piece of the shown text belongs to a "(current)" marker: it is
\* the marker, in either case, or a blank joined to one by blanks only.
InMarker(i) ==
    LET v == versionText
    IN  \/ IsMarkerPiece(v[i])
        \/ /\ IsBlankPiece(v[i])
           /\ \/ \E j \in (i + 1)..Len(v) :
                    IsMarkerPiece(v[j]) /\ \A k \in i..(j - 1) : IsBlankPiece(v[k])
              \/ \E j \in 1..(i - 1) :
                    IsMarkerPiece(v[j]) /\ \A k \in (j + 1)..i : IsBlankPiece(v[k])

RECURSIVE WithoutMarkerFrom(_)
WithoutMarkerFrom(i) ==
    IF i > Len(versionText) THEN <<>>
    ELSE (IF InMarker(i) THEN <<>> ELSE versionText[i]) \o WithoutMarkerFrom(i + 1)

\* The shown text with the marker taken out
WithoutMarker == WithoutMarkerFrom(1)

\* u[a..b] is an integer literal, blanks around it: an optional sign, then digits
IsLiteral(u, a, b) ==
    /\ a <= b
    /\ \A k \in 1..(a - 1) : u[k] = " "
    /\ \A k \in (b + 1)..Len(u) : u[k] = " "
    /\ u[a] # " " /\ u[b] # " "
    /\ LET d == IF u[a] \in {"+", "-"} THEN a + 1 ELSE a
       IN  d <= b /\ \A k \in d..b : u[k] \in Digits

BareInteger(u) == \E a, b \in 1..Len(u) : IsLiteral(u, a, b)

RECURSIVE Pow10(_)
Pow10(n) == IF n = 0 THEN 1 ELSE 10 * Pow10(n - 1)

RECURSIVE WeightedSum(_, _, _)
WeightedSum(u, d, b) ==
    IF d > b THEN 0 ELSE DigitVal(u[d]) * Pow10(b - d) + WeightedSum(u, d + 1, b)

IntegerOf(u) ==
    LET ab == CHOOSE ab \in (1..Len(u)) \X (1..Len(u)) : IsLiteral(u, ab[1], ab[2])
        a == ab[1]
        b == ab[2]
    IN  IF u[a] = "-" THEN 0 - WeightedSum(u, a + 1, b)
        ELSE IF u[a] = "+" THEN WeightedSum(u, a + 1, b)
        ELSE WeightedSum(u, a, b)

VersionRead == call.name = "get_wiki_version" /\ Resolves(VersionElm)

\* C3: once the version element is found, get_wiki_version returns the integer
\* the shown text denotes when that text, the "(current)" marker (in any
\* case, with the blanks around it) taken out, is a bare integer, and 0 for
\* every other text; no parse failure is raised.
C3_VersionParsedOrZero ==
    VersionRead =>
        /\ exc = "none"
        /\ ret = IntVal(IF BareInteger(WithoutMarker) THEN IntegerOf(WithoutMarker) ELSE 0)

C3_Witness ==
    /\ VersionRead
    /\ versionText = <<(<<"3">>), (<<" ">>), (<<"(", "C", "u", "r", "r", "e", "n", "t", ")">>)>>
    /\ ret = IntVal(3)

----------------------------------------------------------------------------
(* gen_user_data and create_user *)

\* C5: no two invocations of gen_user_data, whatever their _length, yield the
\* same username / password pair.
C5_FixturesNeverCollide ==
    \A i, j \in DOMAIN users :
        i < j => <<users[i].username, users[i].password>>
                    # <<users[j].username, users[j].password>>

====
